---- MODULE Spec2Model ----
(***************************************************************************)
(* CORD-19 metadata analysis: the batch report (cord19_analysis.py) and    *)
(* the interactive explorer (streamlit_app.py).                            *)
(*                                                                         *)
(* A text value is a sequence of one-character strings, so that splitting, *)
(* lower-casing and the alphabetic test are computed on the characters.    *)
(* A cell is [na, v]: na is pandas' "missing" (NaN / NaT), v the value.    *)
(* A table is [cols, index, rows]: the set of column names, the pandas     *)
(* index labels and, per label, the row (a function from cols to cells).   *)
(*                                                                         *)
(* Library behaviour is modelled as pandas 1.x / 2.x without copy-on-write *)
(* (Series.fillna(inplace=True) on df[col] writes through to df), CPython  *)
(* 3.7+ (Counter keeps first-insertion order, most_common is stable).      *)
(***************************************************************************)
EXTENDS Integers, Sequences, FiniteSets, TLC

VARIABLES metadata, variant, pc, df, df_cleaned, df_filtered, year_range,
          selected_journals, papers_by_year, top_journals, top_words, csv,
          files, done, err, call, ret

vars == <<metadata, variant, pc, df, df_cleaned, df_filtered, year_range,
          selected_journals, papers_by_year, top_journals, top_words, csv,
          files, done, err, call, ret>>

(* ----------------------------- bounds ---------------------------------- *)

\* rows of a raw table
MaxRows == 2
\* characters of a free text value in the word-count tables
MaxTextLen == 5
\* titles in a direct call of top_words, rows in a direct call of count_by
MaxTitles == 2
MaxYearRows == 3
\* largest n tried in a direct call of top_words
MaxN == 3

(* ------------------------- program constants --------------------------- *)

\* len(word) > 3
MinWordLen == 3
\* word_freq.most_common(20); st.slider(..., 10, 50, 20)
TopWordsN == 20
NumWordsDefault == 20
\* value_counts().head(15); st.slider(..., 5, 30, 15)
TopJournalsN == 15
NumJournalsDefault == 15

(* ------------------------------ text ----------------------------------- *)

Range(s) == {s[i] : i \in 1..Len(s)}

UpperCase == <<"A","B","C","D","E","F","G","H","I","J","K","L","M",
               "N","O","P","Q","R","S","T","U","V","W","X","Y","Z">>
LowerCase == <<"a","b","c","d","e","f","g","h","i","j","k","l","m",
               "n","o","p","q","r","s","t","u","v","w","x","y","z">>
Digits == <<"0","1","2","3","4","5","6","7","8","9">>

UpperChars == Range(UpperCase)
AlphaChars == Range(UpperCase) \cup Range(LowerCase)
DigitChars == Range(Digits)
SpaceChars == {" ", "\t", "\n", "\r"}

\* str.isspace() on one character
IsSpace(c) == c \in SpaceChars

\* str.isalpha() on one character
IsAlphaChar(c) == c \in AlphaChars

IsDigit(c) == c \in DigitChars

DigitVal(c) == (CHOOSE i \in 1..10 : Digits[i] = c) - 1

\* str.lower()
LowerChar(c) ==
    IF c \in UpperChars
    THEN LowerCase[CHOOSE i \in 1..26 : UpperCase[i] = c]
    ELSE c

Lower(s) == [i \in 1..Len(s) |-> LowerChar(s[i])]

\* str.isalpha(): non-empty and every character alphabetic
IsAlpha(w) == Len(w) > 0 /\ \A i \in 1..Len(w) : IsAlphaChar(w[i])

\* str.split() without arguments: the maximal runs of non-whitespace
RECURSIVE SplitFrom(_, _, _)
SplitFrom(s, i, cur) ==
    IF i > Len(s)
    THEN IF cur = <<>> THEN <<>> ELSE <<cur>>
    ELSE IF IsSpace(s[i])
         THEN IF cur = <<>>
              THEN SplitFrom(s, i + 1, <<>>)
              ELSE <<cur>> \o SplitFrom(s, i + 1, <<>>)
         ELSE SplitFrom(s, i + 1, Append(cur, s[i]))

Split(s) == SplitFrom(s, 1, <<>>)

\* ' '.join(texts)
RECURSIVE Join(_)
Join(texts) ==
    IF texts = <<>> THEN <<>>
    ELSE IF Len(texts) = 1 THEN texts[1]
    ELSE texts[1] \o <<" ">> \o Join(Tail(texts))

(* ------------------------------ cells ---------------------------------- *)

NaN == [na |-> TRUE, v |-> <<>>]
NaNNum == [na |-> TRUE, v |-> 0]
Str(s) == [na |-> FALSE, v |-> s]
Num(n) == [na |-> FALSE, v |-> n]

\* pd.isna / pd.notna
IsNa(c) == c.na
NotNa(c) == ~c.na

(* ------------------------------ tables --------------------------------- *)

NoTable == [cols |-> {}, index |-> <<>>, rows |-> <<>>]

NRows(t) == Len(t.rows)

Column(t, col) == [i \in 1..NRows(t) |-> t.rows[i][col]]

\* df[mask]: the rows whose mask entry is True, index labels kept
RECURSIVE KeepFrom(_, _)
KeepFrom(mask, i) ==
    IF i > Len(mask) THEN <<>>
    ELSE IF mask[i] THEN <<i>> \o KeepFrom(mask, i + 1)
    ELSE KeepFrom(mask, i + 1)

Filter(t, mask) ==
    LET pos == KeepFrom(mask, 1)
    IN  [cols |-> t.cols,
         index |-> [k \in 1..Len(pos) |-> t.index[pos[k]]],
         rows |-> [k \in 1..Len(pos) |-> t.rows[pos[k]]]]

\* df[col] = series: the column added or replaced in every row
SetColumn(t, col, series) ==
    [cols |-> t.cols \cup {col},
     index |-> t.index,
     rows |-> [i \in 1..NRows(t) |->
                 [c \in t.cols \cup {col} |->
                     IF c = col THEN series[i] ELSE t.rows[i][c]]]]

(* ----------------------- Cleaner / Deriver ----------------------------- *)

Unknown == <<"U","n","k","n","o","w","n">>

\* if col in df.columns: df[col].fillna(value, inplace=True)
FillNa(t, col, value) ==
    IF col \in t.cols
    THEN SetColumn(t, col,
            [i \in 1..NRows(t) |->
                IF IsNa(t.rows[i][col]) THEN Str(value) ELSE t.rows[i][col]])
    ELSE t

\* a cleaner that forgets to drop the rows without a title
DropMissingTitle_KeepAll(t) == t

\* if 'title' in df.columns: df = df[df['title'].notna()]
DropMissingTitle(t) ==
    IF "title" \in t.cols
    THEN Filter(t, [i \in 1..NRows(t) |-> NotNa(t.rows[i]["title"])])
    ELSE t

DaysIn(m) == IF m = 2 THEN 29 ELSE IF m \in {4, 6, 9, 11} THEN 30 ELSE 31

\* pd.to_datetime(value, errors='coerce') on one value: an ISO day
\* "YYYY-MM-DD" parses, anything else the model feeds it is NaT
ToDatetime(c) ==
    IF IsNa(c) THEN NaN
    ELSE LET s == c.v
         IN IF /\ Len(s) = 10
               /\ s[5] = "-" /\ s[8] = "-"
               /\ \A i \in {1, 2, 3, 4, 6, 7, 9, 10} : IsDigit(s[i])
            THEN LET y == 1000 * DigitVal(s[1]) + 100 * DigitVal(s[2])
                          + 10 * DigitVal(s[3]) + DigitVal(s[4])
                     m == 10 * DigitVal(s[6]) + DigitVal(s[7])
                     d == 10 * DigitVal(s[9]) + DigitVal(s[10])
                 IN IF m \in 1..12 /\ d \in 1..DaysIn(m) /\ y >= 1
                    THEN Str(<<y, m, d>>)
                    ELSE NaN
            ELSE NaN

\* Series.dt.year on one value
DtYear(c) == IF IsNa(c) THEN NaNNum ELSE Num(c.v[1])

\* if 'publish_time' in df.columns: to_datetime, then the year column
ConvertDates(t) ==
    IF "publish_time" \in t.cols
    THEN LET t1 == SetColumn(t, "publish_time",
                      [i \in 1..NRows(t) |->
                          ToDatetime(t.rows[i]["publish_time"])])
         IN SetColumn(t1, "publication_year",
                      [i \in 1..NRows(t1) |->
                          DtYear(t1.rows[i]["publish_time"])])
    ELSE t

\* a word count that splits on the single space, str.split(' ')
WordCount_SplitOnSpace(x) ==
    IF NotNa(x)
    THEN Cardinality({i \in 1..Len(x.v) : x.v[i] = " "}) + 1
    ELSE 0

\* lambda x: len(str(x).split()) if pd.notna(x) else 0
WordCount(x) == IF NotNa(x) THEN Len(Split(x.v)) ELSE 0

\* if col in df.columns: df[out] = df[col].apply(word count)
AddWordCount(t, col, out) ==
    IF col \in t.cols
    THEN SetColumn(t, out,
            [i \in 1..NRows(t) |-> Num(WordCount(t.rows[i][col]))])
    ELSE t

\* a cleaner that forgets the journal default
FillMissing_NoJournal(t) ==
    FillNa(FillNa(t, "abstract", <<>>), "authors", Unknown)

FillMissing(t) ==
    FillNa(FillNa(FillNa(t, "abstract", <<>>), "authors", Unknown),
           "journal", Unknown)

\* a cleaner whose title word count is guarded by, and taken from, the
\* abstract column
AddWordCounts_TitleFromAbstract(t) ==
    AddWordCount(AddWordCount(t, "abstract", "abstract_word_count"),
                 "abstract", "title_word_count")

AddWordCounts(t) ==
    AddWordCount(AddWordCount(t, "abstract", "abstract_word_count"),
                 "title", "title_word_count")

\* streamlit_app.py prepare_data(df)
PrepareData(t) == AddWordCounts(ConvertDates(DropMissingTitle(FillMissing(t))))

\* cord19_analysis.py Part 2, steps 2 to 4
CleanBatch(t) == AddWordCounts(ConvertDates(DropMissingTitle(FillMissing(t))))

(* ---------------------------- Aggregator ------------------------------- *)

\* the stop_words set literal
StopWords ==
    {<<"t","h","e">>,
     <<"a">>,
     <<"a","n">>,
     <<"a","n","d">>,
     <<"o","r">>,
     <<"b","u","t">>,
     <<"i","n">>,
     <<"o","n">>,
     <<"a","t">>,
     <<"t","o">>,
     <<"f","o","r">>,
     <<"o","f">>,
     <<"w","i","t","h">>,
     <<"b","y">>,
     <<"f","r","o","m">>,
     <<"a","s">>,
     <<"i","s">>,
     <<"w","a","s">>,
     <<"a","r","e">>,
     <<"b","e">>,
     <<"b","e","e","n">>,
     <<"c","o","v","i","d">>,
     <<"1","9">>,
     <<"c","o","r","o","n","a","v","i","r","u","s">>,
     <<"s","a","r","s">>,
     <<"c","o","v">>,
     <<"c","o","v","i","d","-","1","9">>,
     <<"n","o","v","e","l">>,
     <<"n","e","w">>,
     <<"s","t","u","d","y">>,
     <<"r","e","s","e","a","r","c","h">>,
     <<"a","n","a","l","y","s","i","s">>,
     <<"c","a","s","e">>,
     <<"e","f","f","e","c","t">>,
     <<"r","e","l","a","t","e","d">>}

\* Counter.update on one element: counts kept in first-insertion order
CounterAdd(acc, x) ==
    IF \E k \in 1..Len(acc) : acc[k][1] = x
    THEN [k \in 1..Len(acc) |->
            IF acc[k][1] = x THEN <<x, acc[k][2] + 1>> ELSE acc[k]]
    ELSE Append(acc, <<x, 1>>)

\* Counter(items)
RECURSIVE CounterFrom(_, _, _)
CounterFrom(items, i, acc) ==
    IF i > Len(items) THEN acc
    ELSE CounterFrom(items, i + 1, CounterAdd(acc, items[i]))

Counter(items) == CounterFrom(items, 1, <<>>)

\* one step of a stable sort by count, descending: the pair goes after
\* every pair whose count is at least its own
InsertByCount(sorted, pair) ==
    LET ahead == Cardinality({k \in 1..Len(sorted) : sorted[k][2] >= pair[2]})
    IN  SubSeq(sorted, 1, ahead) \o <<pair>>
        \o SubSeq(sorted, ahead + 1, Len(sorted))

RECURSIVE SortByCount(_, _, _)
SortByCount(pairs, i, acc) ==
    IF i > Len(pairs) THEN acc
    ELSE SortByCount(pairs, i + 1, InsertByCount(acc, pairs[i]))

\* Series.head(n) / the [:n] of most_common(n)
HeadN(seq, n) == SubSeq(seq, 1, IF n < Len(seq) THEN n ELSE Len(seq))

\* Counter.most_common(n)
MostCommon(counter, n) == HeadN(SortByCount(counter, 1, <<>>), n)

\* a filter that keeps words of three letters too, len(word) >= 3
KeepWord_AtLeast3(word, stop_words) ==
    IsAlpha(word) /\ Len(word) >= MinWordLen /\ word \notin stop_words

\* the filter of the words comprehension
KeepWord(word, stop_words) ==
    IsAlpha(word) /\ Len(word) > MinWordLen /\ word \notin stop_words

\* all_titles = ' '.join(titles).lower(); words = [...]; Counter; most_common
TopWords(titles, n, stop_words) ==
    LET all_titles == Lower(Join(titles))
        words == SelectSeq(Split(all_titles),
                           LAMBDA word : KeepWord(word, stop_words))
    IN  MostCommon(Counter(words), n)

\* Series.dropna()
RECURSIVE DropNa(_)
DropNa(series) ==
    IF series = <<>> THEN <<>>
    ELSE IF IsNa(series[1]) THEN DropNa(Tail(series))
    ELSE <<series[1].v>> \o DropNa(Tail(series))

\* Series.value_counts(): missing values dropped, most frequent first
ValueCounts(series) == SortByCount(Counter(DropNa(series)), 1, <<>>)

\* one step of a sort by key, ascending (the keys are distinct)
InsertByKey(sorted, pair) ==
    LET ahead == Cardinality({k \in 1..Len(sorted) : sorted[k][1] < pair[1]})
    IN  SubSeq(sorted, 1, ahead) \o <<pair>>
        \o SubSeq(sorted, ahead + 1, Len(sorted))

RECURSIVE SortIndexFrom(_, _, _)
SortIndexFrom(pairs, i, acc) ==
    IF i > Len(pairs) THEN acc
    ELSE SortIndexFrom(pairs, i + 1, InsertByKey(acc, pairs[i]))

\* Series.sort_index()
SortIndex(pairs) == SortIndexFrom(pairs, 1, <<>>)

\* a count by year without its sort_index()
CountByYear_NoSortIndex(series) == ValueCounts(series)

\* df['publication_year'].value_counts().sort_index()
CountByYear(series) == SortIndex(ValueCounts(series))

\* Series.min() / Series.max(): missing values skipped, NaN when none is left
SeriesMin(series) ==
    LET vals == Range(DropNa(series))
    IN  IF vals = {} THEN NaNNum
        ELSE Num(CHOOSE m \in vals : \A x \in vals : m <= x)

SeriesMax(series) ==
    LET vals == Range(DropNa(series))
    IN  IF vals = {} THEN NaNNum
        ELSE Num(CHOOSE m \in vals : \A x \in vals : m >= x)

\* Series.unique() as a set
Unique(series) == Range(series)

(* ------------------------------- CSV ----------------------------------- *)

\* available_cols of Tab 5, and the header text of each
AvailableCols == <<"title", "abstract", "authors", "journal",
                   "publication_year", "abstract_word_count">>

ColumnText ==
    [c \in Range(AvailableCols) |->
        CASE c = "title" -> <<"t","i","t","l","e">>
          [] c = "abstract" -> <<"a","b","s","t","r","a","c","t">>
          [] c = "authors" -> <<"a","u","t","h","o","r","s">>
          [] c = "journal" -> <<"j","o","u","r","n","a","l">>
          [] c = "publication_year" -> <<"p","u","b","l","i","c","a","t","i","o","n","_","y","e","a","r">>
          [] c = "abstract_word_count" -> <<"a","b","s","t","r","a","c","t","_","w","o","r","d","_","c","o","u","n","t">>]

\* display_cols = [col for col in available_cols if col in df_filtered.columns]
DisplayCols(t) == SelectSeq(AvailableCols, LAMBDA c : c \in t.cols)

\* str(n) for n >= 0
RECURSIVE FormatInt(_)
FormatInt(n) ==
    IF n < 10 THEN <<Digits[n + 1]>>
    ELSE FormatInt(n \div 10) \o <<Digits[(n % 10) + 1]>>

\* the text to_csv writes for one cell: na_rep '' for a missing value, a
\* float column (a year column that held a NaN) with its ".0"
CellText(cell, col, float_year) ==
    IF IsNa(cell) THEN <<>>
    ELSE IF col = "publication_year"
         THEN FormatInt(cell.v) \o (IF float_year THEN <<".", "0">> ELSE <<>>)
    ELSE IF col = "abstract_word_count" THEN FormatInt(cell.v)
    ELSE cell.v

\* csv.writer, QUOTE_MINIMAL: a field is quoted when it holds the delimiter,
\* the quote character or a line break, and when it is the empty only field
CsvField(text, only_field) ==
    [q |-> \/ \E i \in 1..Len(text) : text[i] \in {",", "\"", "\n", "\r"}
           \/ (only_field /\ text = <<>>),
     s |-> text]

\* DataFrame.to_csv(index=False): the header line, then one line per row;
\* a line is the sequence of its fields
ToCsv(t, cols, float_year) ==
    <<[k \in 1..Len(cols) |-> CsvField(ColumnText[cols[k]], Len(cols) = 1)]>>
    \o [i \in 1..NRows(t) |->
          [k \in 1..Len(cols) |->
              CsvField(CellText(t.rows[i][cols[k]], cols[k], float_year),
                       Len(cols) = 1)]]

\* the C tokenizer with skip_blank_lines=True: a line with no field, or with
\* one unquoted field of whitespace only, is skipped
IsBlankLine(line) ==
    \/ Len(line) = 0
    \/ /\ Len(line) = 1
       /\ ~line[1].q
       /\ \A i \in 1..Len(line[1].s) : IsSpace(line[1].s[i])

\* pd.read_csv(...): the first line kept is the header, the others are rows;
\* EmptyDataError when no line is kept
ReadCsv(lines) ==
    LET kept == SelectSeq(lines, LAMBDA line : ~IsBlankLine(line))
    IN  IF kept = <<>>
        THEN [ok |-> FALSE, cols |-> {}, nrows |-> 0]
        ELSE [ok |-> TRUE,
              cols |-> {kept[1][k].s : k \in 1..Len(kept[1])},
              nrows |-> Len(kept) - 1]

(* ------------------------- interactive explorer ------------------------ *)

NoError == [kind |-> "none", line |-> 0]
NoCsv == [written |-> FALSE, lines |-> <<>>]

\* df_cleaned[(year >= year_range[0]) & (year <= year_range[1])], or
\* df_cleaned itself without a year column; a NaN year compares False
YearFilter(t, yr) ==
    IF "publication_year" \in t.cols
    THEN Filter(t, [i \in 1..NRows(t) |->
                      LET y == t.rows[i]["publication_year"]
                      IN  NotNa(y) /\ y.v >= yr[1] /\ y.v <= yr[2]])
    ELSE t

\* if selected_journals: df_filtered[df_filtered['journal'].isin(selected)]
JournalFilter(t, sel) ==
    IF "journal" \in t.cols /\ sel # {}
    THEN Filter(t, [i \in 1..NRows(t) |-> t.rows[i]["journal"] \in sel])
    ELSE t

\* the options of the journal multiselect for a year range
JournalOptions(t, yr) ==
    LET f == YearFilter(t, yr)
    IN  IF "journal" \in f.cols THEN Unique(Column(f, "journal")) ELSE {}

\* the texts of a column after astype(str)
Texts(t, col) == [i \in 1..NRows(t) |-> t.rows[i][col].v]

\* one run of the script body below prepare_data (lines 67 to 259) with the
\* widgets at year_range = yr and selected_journals = sel; an exception ends
\* the run at the line that raised it
Render(dfc, yr, sel) ==
    LET hasYear == "publication_year" \in dfc.cols
        \* int(df_cleaned['publication_year'].min()): ValueError on NaN
        sidebarErr == hasYear /\ IsNa(SeriesMin(Column(dfc, "publication_year")))
        f == JournalFilter(YearFilter(dfc, yr), sel)
        \* int(df_filtered['publication_year'].min()): ValueError on NaN
        tab1Err == hasYear /\ IsNa(SeriesMin(Column(f, "publication_year")))
        pby == IF hasYear THEN CountByYear(Column(f, "publication_year"))
               ELSE <<>>
        tj == IF "journal" \in f.cols
              THEN HeadN(ValueCounts(Column(f, "journal")), NumJournalsDefault)
              ELSE <<>>
        tw == IF "title" \in f.cols
              THEN TopWords(Texts(f, "title"), NumWordsDefault, StopWords)
              ELSE <<>>
        \* words_list, counts_list = zip(*top_words): ValueError on []
        tab3Err == "title" \in f.cols /\ tw = <<>>
        float_year == hasYear
                      /\ \E i \in 1..NRows(dfc) :
                            IsNa(dfc.rows[i]["publication_year"])
        out == [df_filtered |-> f, papers_by_year |-> <<>>,
                top_journals |-> <<>>, top_words |-> <<>>, csv |-> NoCsv,
                done |-> {"filters", "sidebar_stats"}, err |-> NoError]
    IN  IF sidebarErr
        THEN [out EXCEPT !.df_filtered = NoTable, !.done = {},
                         !.err = [kind |-> "ValueError", line |-> 72]]
        ELSE IF tab1Err
        THEN [out EXCEPT !.err = [kind |-> "ValueError", line |-> 120]]
        ELSE IF tab3Err
        THEN [out EXCEPT !.papers_by_year = pby, !.top_journals = tj,
                         !.done = @ \cup {"tab1", "tab2"},
                         !.err = [kind |-> "ValueError", line |-> 189]]
        ELSE [out EXCEPT !.papers_by_year = pby, !.top_journals = tj,
                         !.top_words = tw,
                         !.csv = [written |-> TRUE,
                                  lines |-> ToCsv(f, DisplayCols(f), float_year)],
                         !.done = @ \cup {"tab1", "tab2", "tab3", "tab4", "tab5"}]

\* the (min_year, max_year) the slider starts at; <<>> without a slider
DefaultYearRange(dfc) ==
    IF "publication_year" \in dfc.cols
       /\ NotNa(SeriesMin(Column(dfc, "publication_year")))
    THEN <<SeriesMin(Column(dfc, "publication_year")).v,
           SeriesMax(Column(dfc, "publication_year")).v>>
    ELSE <<>>

\* the values the year slider can be moved to
YearRanges(dfc) ==
    LET d == DefaultYearRange(dfc)
    IN  IF d = <<>> THEN {<<>>}
        ELSE {<<lo, hi>> : lo \in d[1]..d[2], hi \in d[1]..d[2]}
             \cap {r \in (d[1]..d[2]) \X (d[1]..d[2]) : r[1] <= r[2]}

(* ------------------------------ inputs --------------------------------- *)

OptionalCols == {"title", "abstract", "authors", "journal", "publish_time",
                 "source_x", "source"}

\* a column of the file that no step reads
OtherCol == "cord_uid"

T_SpreadPatterns == <<"S","p","r","e","a","d"," ","P","a","t","t","e","r","n","s">>
T_SpreadOf2019 == <<"S","p","r","e","a","d"," ","O","f"," ","2","0","1","9">>
T_Of == <<"O","f">>
T_abc == <<"a"," ","b"," "," ","c">>
T_one == <<"o","n","e">>
T_Smith == <<"S","m","i","t","h">>
T_Lancet == <<"L","a","n","c","e","t">>
T_BMJ == <<"B","M","J">>
T_PMC == <<"P","M","C">>
T_WHO == <<"W","H","O">>
D_2019 == <<"2","0","1","9","-","0","5","-","0","1">>
D_2020 == <<"2","0","2","0","-","0","3","-","0","1">>
D_2021 == <<"2","0","2","1","-","0","1","-","1","5">>
D_bad == <<"n","/","a">>

\* four rows of a metadata file, over every column
PoolRows ==
    {[cord_uid |-> Str(<<"u", "1">>), title |-> Str(T_SpreadPatterns),
      abstract |-> Str(T_abc), authors |-> Str(T_Smith),
      journal |-> Str(T_Lancet), publish_time |-> Str(D_2019),
      source_x |-> Str(T_PMC), source |-> Str(T_WHO)],
     [cord_uid |-> Str(<<"u", "2">>), title |-> Str(T_SpreadOf2019),
      abstract |-> NaN, authors |-> NaN,
      journal |-> NaN, publish_time |-> Str(D_2021),
      source_x |-> Str(T_PMC), source |-> NaN],
     [cord_uid |-> Str(<<"u", "3">>), title |-> NaN,
      abstract |-> Str(T_one), authors |-> Str(T_Smith),
      journal |-> Str(T_BMJ), publish_time |-> Str(D_bad),
      source_x |-> Str(T_WHO), source |-> Str(T_WHO)],
     [cord_uid |-> Str(<<"u", "4">>), title |-> Str(T_Of),
      abstract |-> NaN, authors |-> Str(T_Smith),
      journal |-> Str(T_Lancet), publish_time |-> NaN,
      source_x |-> NaN, source |-> Str(T_WHO)]}

\* a table as read_csv returns it: a RangeIndex 0..n-1 and the given rows
MakeTable(cols, rows) ==
    [cols |-> cols,
     index |-> [i \in 1..Len(rows) |-> i - 1],
     rows |-> [i \in 1..Len(rows) |-> [c \in cols |-> rows[i][c]]]]

SeqsUpTo(S, n) == UNION {[1..k -> S] : k \in 0..n}

\* the files of the full runs: any of the optional columns absent, up to
\* MaxRows rows of the pool
PoolTables ==
    {MakeTable(cols \cup {OtherCol}, rows) :
        cols \in SUBSET OptionalCols, rows \in SeqsUpTo(PoolRows, MaxRows)}

Files == [state : {"absent", "malformed"}, table : {NoTable}]
         \cup [state : {"ok"}, table : PoolTables]

(* ------------------------- batch report steps -------------------------- *)

SummaryCols == {"title", "abstract_word_count", "publication_year", "journal"}

InitCommon ==
    /\ df = NoTable /\ df_cleaned = NoTable /\ df_filtered = NoTable
    /\ year_range = <<>> /\ selected_journals = {}
    /\ papers_by_year = <<>> /\ top_journals = <<>> /\ top_words = <<>>
    /\ csv = NoCsv /\ files = {} /\ done = {} /\ err = NoError
    /\ call = [op |-> "none"] /\ ret = [returned |-> FALSE, value |-> <<>>]

Init ==
    /\ metadata \in Files
    /\ variant \in {"batch", "dash"}
    /\ pc = "start"
    /\ InitCommon

\* a load step that prints the error and goes on instead of calling exit()
BatchLoad_NoExit ==
    /\ variant = "batch" /\ pc = "start"
    /\ IF metadata.state = "ok"
       THEN /\ df' = metadata.table
            /\ done' = done \cup {"load"}
       ELSE UNCHANGED <<df, done>>
    /\ pc' = "loaded"
    /\ UNCHANGED <<metadata, variant, df_cleaned, df_filtered, year_range,
                   selected_journals, papers_by_year, top_journals, top_words,
                   csv, files, err, call, ret>>

\* lines 11-23: the file is read, or the error is printed and exit() called
BatchLoad ==
    /\ variant = "batch" /\ pc = "start"
    /\ IF metadata.state = "ok"
       THEN /\ df' = metadata.table
            /\ done' = done \cup {"load"}
            /\ pc' = "loaded"
       ELSE /\ pc' = "exited"
            /\ UNCHANGED <<df, done>>
    /\ UNCHANGED <<metadata, variant, df_cleaned, df_filtered, year_range,
                   selected_journals, papers_by_year, top_journals, top_words,
                   csv, files, err, call, ret>>

\* lines 25-71: head, info, missing counts, describe (nothing is changed)
BatchExplore ==
    /\ variant = "batch" /\ pc = "loaded"
    /\ done' = done \cup {"explore"}
    /\ pc' = "explored"
    /\ UNCHANGED <<metadata, variant, df, df_cleaned, df_filtered, year_range,
                   selected_journals, papers_by_year, top_journals, top_words,
                   csv, files, err, call, ret>>

\* lines 73-122: Part 2, steps 2 to 4
BatchClean ==
    /\ variant = "batch" /\ pc = "explored"
    /\ df_cleaned' = CleanBatch(df)
    /\ done' = done \cup {"clean"}
    /\ pc' = "cleaned"
    /\ UNCHANGED <<metadata, variant, df, df_filtered, year_range,
                   selected_journals, papers_by_year, top_journals, top_words,
                   csv, files, err, call, ret>>

\* lines 124-133: df_cleaned[['title', 'abstract_word_count',
\* 'publication_year', 'journal']] raises KeyError when one is not a column
BatchSummary ==
    /\ variant = "batch" /\ pc = "cleaned"
    /\ IF SummaryCols \subseteq df_cleaned.cols
       THEN /\ done' = done \cup {"summary"}
            /\ pc' = "summarized"
            /\ err' = err
       ELSE /\ err' = [kind |-> "KeyError", line |-> 131]
            /\ pc' = "crashed"
            /\ done' = done
    /\ UNCHANGED <<metadata, variant, df, df_cleaned, df_filtered, year_range,
                   selected_journals, papers_by_year, top_journals, top_words,
                   csv, files, call, ret>>

\* lines 142-173: Part 3, steps 1 to 3
BatchAnalysis ==
    /\ variant = "batch" /\ pc = "summarized"
    /\ papers_by_year' =
          IF "publication_year" \in df_cleaned.cols
          THEN CountByYear(Column(df_cleaned, "publication_year"))
          ELSE papers_by_year
    /\ top_journals' =
          IF "journal" \in df_cleaned.cols
          THEN HeadN(ValueCounts(Column(df_cleaned, "journal")), TopJournalsN)
          ELSE top_journals
    /\ top_words' =
          IF "title" \in df_cleaned.cols
          THEN TopWords(Texts(df_cleaned, "title"), TopWordsN, StopWords)
          ELSE top_words
    /\ done' = done \cup {"analysis"}
    /\ pc' = "analyzed"
    /\ UNCHANGED <<metadata, variant, df, df_cleaned, df_filtered, year_range,
                   selected_journals, csv, files, err, call, ret>>

\* lines 175-231: the four plots and savefig; zip(*top_words) raises
\* ValueError when top_words is empty
BatchPlots ==
    /\ variant = "batch" /\ pc = "analyzed"
    /\ IF "title" \in df_cleaned.cols /\ top_words = <<>>
       THEN /\ err' = [kind |-> "ValueError", line |-> 204]
            /\ pc' = "crashed"
            /\ UNCHANGED <<done, files>>
       ELSE /\ files' = files \cup {"covid19_analysis_visualizations.png"}
            /\ done' = done \cup {"plots"}
            /\ pc' = "plotted"
            /\ err' = err
    /\ UNCHANGED <<metadata, variant, df, df_cleaned, df_filtered, year_range,
                   selected_journals, papers_by_year, top_journals, top_words,
                   csv, call, ret>>

\* lines 233-253: the word cloud image (reached only with a countable title
\* word, so the cloud has a word to draw)
BatchWordCloud ==
    /\ variant = "batch" /\ pc = "plotted"
    /\ files' = IF "title" \in df_cleaned.cols
                THEN files \cup {"covid19_wordcloud.png"}
                ELSE files
    /\ done' = done \cup {"wordcloud"}
    /\ pc' = "finished"
    /\ UNCHANGED <<metadata, variant, df, df_cleaned, df_filtered, year_range,
                   selected_journals, papers_by_year, top_journals, top_words,
                   csv, err, call, ret>>

(* --------------------- interactive explorer steps ---------------------- *)

\* load_data(): read_csv; FileNotFoundError gives st.error and None, and the
\* script ends in its else branch; any other error of read_csv escapes
DashLoad ==
    /\ variant = "dash" /\ pc = "start"
    /\ CASE metadata.state = "ok" ->
              /\ df' = metadata.table
              /\ done' = done \cup {"load"}
              /\ pc' = "loaded"
              /\ err' = err
         [] metadata.state = "absent" ->
              /\ pc' = "stopped"
              /\ UNCHANGED <<df, done, err>>
         [] metadata.state = "malformed" ->
              /\ pc' = "stopped"
              /\ err' = [kind |-> "ParserError", line |-> 21]
              /\ UNCHANGED <<df, done>>
    /\ UNCHANGED <<metadata, variant, df_cleaned, df_filtered, year_range,
                   selected_journals, papers_by_year, top_journals, top_words,
                   csv, files, call, ret>>

\* df_cleaned = prepare_data(df), computed once (st.cache_data)
DashPrepare ==
    /\ variant = "dash" /\ pc = "loaded"
    /\ df_cleaned' = PrepareData(df)
    /\ done' = done \cup {"clean"}
    /\ pc' = "prepared"
    /\ UNCHANGED <<metadata, variant, df, df_filtered, year_range,
                   selected_journals, papers_by_year, top_journals, top_words,
                   csv, files, err, call, ret>>

\* a run that filters the view of the run before it instead of df_cleaned
RunWith_FromEarlierView(yr, sel) ==
    \E r \in {Render(IF pc = "idle" THEN df_filtered ELSE df_cleaned,
                     yr, sel)} :
        /\ year_range' = yr
        /\ selected_journals' = sel
        /\ df_filtered' = r.df_filtered
        /\ papers_by_year' = r.papers_by_year
        /\ top_journals' = r.top_journals
        /\ top_words' = r.top_words
        /\ csv' = r.csv
        /\ done' = {"load", "clean"} \cup r.done
        /\ err' = r.err
        /\ pc' = "idle"
        /\ UNCHANGED <<metadata, variant, df, df_cleaned, files, call, ret>>

\* the rest of a script run with the widgets at yr and sel
RunWith(yr, sel) ==
    \E r \in {Render(df_cleaned, yr, sel)} :
        /\ year_range' = yr
        /\ selected_journals' = sel
        /\ df_filtered' = r.df_filtered
        /\ papers_by_year' = r.papers_by_year
        /\ top_journals' = r.top_journals
        /\ top_words' = r.top_words
        /\ csv' = r.csv
        /\ done' = {"load", "clean"} \cup r.done
        /\ err' = r.err
        /\ pc' = "idle"
        /\ UNCHANGED <<metadata, variant, df, df_cleaned, files, call, ret>>

\* the first run: the slider at (min_year, max_year), no journal selected
DashRender ==
    /\ variant = "dash" /\ pc = "prepared"
    /\ RunWith(DefaultYearRange(df_cleaned), {})

\* the user moves the year slider or changes the journal selection, and the
\* script runs again (load_data and prepare_data answer from their cache)
DashRerun ==
    /\ variant = "dash" /\ pc = "idle"
    /\ err.line # 72
    /\ \E yr \in YearRanges(df_cleaned) :
         \E sel \in SUBSET JournalOptions(df_cleaned, yr) :
            RunWith(yr, sel)

Next ==
    \/ BatchLoad \/ BatchExplore \/ BatchClean \/ BatchSummary
    \/ BatchAnalysis \/ BatchPlots \/ BatchWordCloud
    \/ DashLoad \/ DashPrepare \/ DashRender \/ DashRerun

Spec == Init /\ [][Next]_vars

(* ------------------- cleaning on its own (both variants) --------------- *)

\* the rows of the cleaning tables over every column: each of title,
\* abstract, authors and journal missing or not, a date that parses or not
FullCleanRows ==
    [cord_uid : {Str(<<"u", "1">>)},
     title : {NaN, Str(T_abc)},
     abstract : {NaN, Str(T_one)},
     authors : {NaN, Str(T_Smith)},
     journal : {NaN, Str(T_Lancet)},
     publish_time : {Str(D_bad), Str(D_2020)}]

CleanRowsOver(cols) == {[c \in cols |-> r[c]] : r \in FullCleanRows}

CleanCols == {"title", "abstract", "authors", "journal", "publish_time"}

TextAlphabet == {"a", " ", "\t"}

\* one-row tables whose title or abstract is any text of up to MaxTextLen
\* characters, or missing
TextTables ==
    {MakeTable({OtherCol, col},
               <<[c \in {OtherCol, col} |->
                    IF c = col THEN x ELSE Str(<<"u", "1">>)]>>) :
        col \in {"title", "abstract"},
        x \in {NaN} \cup {Str(s) : s \in SeqsUpTo(TextAlphabet, MaxTextLen)}}

InitClean ==
    /\ \/ \E cols \in SUBSET CleanCols, n \in 0..MaxRows :
            \E rows \in [1..n -> CleanRowsOver(cols \cup {OtherCol})] :
               metadata = [state |-> "ok",
                           table |-> [cols |-> cols \cup {OtherCol},
                                      index |-> [i \in 1..n |-> i - 1],
                                      rows |-> rows]]
       \/ metadata \in [state : {"ok"}, table : TextTables]
    /\ variant \in {"batch", "dash"}
    /\ pc = IF variant = "batch" THEN "explored" ELSE "loaded"
    /\ df = metadata.table /\ df_cleaned = NoTable /\ df_filtered = NoTable
    /\ year_range = <<>> /\ selected_journals = {}
    /\ papers_by_year = <<>> /\ top_journals = <<>> /\ top_words = <<>>
    /\ csv = NoCsv /\ files = {} /\ err = NoError
    /\ done = IF variant = "batch" THEN {"load", "explore"} ELSE {"load"}
    /\ call = [op |-> "none"] /\ ret = [returned |-> FALSE, value |-> <<>>]

NextClean == BatchClean \/ DashPrepare

SpecClean == InitClean /\ [][NextClean]_vars

(* ------------------ the aggregations called directly ------------------- *)

T_Example1 == <<"N","o","v","e","l"," ","C","o","r","o","n","a","v","i","r","u","s"," ","S","p","r","e","a","d"," ","P","a","t","t","e","r","n","s">>
T_Example2 == <<"S","p","r","e","a","d"," ","D","y","n","a","m","i","c","s"," ","O","f"," ","C","o","r","o","n","a","v","i","r","u","s">>
T_Mixed1 == <<"D","y","n","a","m","i","c","s"," "," ","o","f"," ","f","l","u"," ","d","a","t","a">>
T_Mixed2 == <<"C","O","V","I","D","-","1","9"," ","s","p","r","e","a","d",","," ","D","A","T","A">>
T_Data == <<"D","a","t","a">>

TitlePool == {T_Example1, T_Example2, T_Mixed1, T_Mixed2, T_Data}

StopWordSets == {StopWords, {}, {<<"s","p","r","e","a","d">>}}

YearPool == {NaNNum, Num(2019), Num(2020), Num(2021)}

TopWordsCalls ==
    [op : {"top_words"}, titles : SeqsUpTo(TitlePool, MaxTitles),
     n : 0..MaxN, stop_words : StopWordSets]

CountByCalls ==
    [op : {"count_by"}, series : SeqsUpTo(YearPool, MaxYearRows)]

InitAgg ==
    /\ call \in TopWordsCalls \cup CountByCalls
    /\ ret = [returned |-> FALSE, value |-> <<>>]
    /\ metadata = [state |-> "absent", table |-> NoTable]
    /\ variant = "none" /\ pc = "call"
    /\ df = NoTable /\ df_cleaned = NoTable /\ df_filtered = NoTable
    /\ year_range = <<>> /\ selected_journals = {}
    /\ papers_by_year = <<>> /\ top_journals = <<>> /\ top_words = <<>>
    /\ csv = NoCsv /\ files = {} /\ done = {} /\ err = NoError

CallTopWords ==
    /\ call.op = "top_words" /\ ~ret.returned
    /\ ret' = [returned |-> TRUE,
               value |-> TopWords(call.titles, call.n, call.stop_words)]
    /\ UNCHANGED <<metadata, variant, pc, df, df_cleaned, df_filtered,
                   year_range, selected_journals, papers_by_year, top_journals,
                   top_words, csv, files, done, err, call>>

CallCountByYear ==
    /\ call.op = "count_by" /\ ~ret.returned
    /\ ret' = [returned |-> TRUE, value |-> CountByYear(call.series)]
    /\ UNCHANGED <<metadata, variant, pc, df, df_cleaned, df_filtered,
                   year_range, selected_journals, papers_by_year, top_journals,
                   top_words, csv, files, done, err, call>>

NextAgg == CallTopWords \/ CallCountByYear

SpecAgg == InitAgg /\ [][NextAgg]_vars

(* ------------------------------ claims --------------------------------- *)

Cleaned == pc \in {"cleaned", "prepared"}

\* the raw row a cleaned row comes from: index label i is raw position i + 1
RawRow(k) == df.rows[df_cleaned.index[k] + 1]

\* C1: after cleaning (batch Part 2 or prepare_data), in each of the columns
\* abstract, authors, journal the raw table has, no cleaned row is missing a
\* value; an entry missing in the raw row is "" (abstract) or "Unknown"
\* (authors, journal), and an entry not missing keeps its raw value.
C1_MissingValuesFilled ==
    Cleaned =>
        \A col \in {"abstract", "authors", "journal"} \cap df.cols :
            /\ col \in df_cleaned.cols
            /\ \A k \in 1..NRows(df_cleaned) :
                  LET raw == RawRow(k)[col]
                      val == df_cleaned.rows[k][col]
                  IN  /\ ~val.na
                      /\ raw.na => val.v = IF col = "abstract" THEN <<>>
                                           ELSE <<"U","n","k","n","o","w","n">>
                      /\ ~raw.na => val = raw

\* a cleaned table with a row that had all three values missing and a row
\* that had none missing
C1_Witness ==
    /\ Cleaned
    /\ {"abstract", "authors", "journal"} \subseteq df.cols
    /\ \E k \in 1..NRows(df_cleaned) :
          \A col \in {"abstract", "authors", "journal"} : RawRow(k)[col].na
    /\ \E k \in 1..NRows(df_cleaned) :
          \A col \in {"abstract", "authors", "journal"} : ~RawRow(k)[col].na

\* C2: with a title column, the cleaned table is exactly the raw rows whose
\* title is not missing, in their original order: as many rows as the raw
\* table has titles, index labels strictly ascending, each the label of a raw
\* row with a title and carrying that row's title and other column.
C2_TitleRowsKept ==
    (Cleaned /\ "title" \in df.cols) =>
        LET kept == {i \in 1..NRows(df) : ~df.rows[i]["title"].na}
        IN  /\ NRows(df_cleaned) = Cardinality(kept)
            /\ Len(df_cleaned.index) = NRows(df_cleaned)
            /\ \A k \in 1..NRows(df_cleaned) :
                  /\ df_cleaned.index[k] + 1 \in kept
                  /\ df_cleaned.rows[k]["title"] = RawRow(k)["title"]
                  /\ df_cleaned.rows[k][OtherCol] = RawRow(k)[OtherCol]
            /\ \A k, l \in 1..NRows(df_cleaned) :
                  k < l => df_cleaned.index[k] < df_cleaned.index[l]

\* a row without a title was dropped and a row with a title but a missing
\* abstract was kept
C2_Witness ==
    /\ Cleaned
    /\ {"title", "abstract"} \subseteq df.cols
    /\ \E i \in 1..NRows(df) : df.rows[i]["title"].na
    /\ \E k \in 1..NRows(df_cleaned) : RawRow(k)["abstract"].na
    /\ NRows(df_cleaned) < NRows(df)

\* the number of maximal runs of non-whitespace characters of a text
Runs(s) ==
    Cardinality({i \in 1..Len(s) :
        /\ s[i] \notin {" ", "\t", "\n", "\r"}
        /\ (i = 1 \/ s[i - 1] \in {" ", "\t", "\n", "\r"})})

\* C8: for every cleaned row, abstract_word_count (title_word_count) is a
\* non-negative integer, the number of maximal runs of non-whitespace in the
\* row's abstract (title): 0 for a missing or empty value, 3 for "a b  c".
C8_WordCountIsRuns ==
    Cleaned =>
        \A p \in {<<"abstract", "abstract_word_count">>,
                  <<"title", "title_word_count">>} :
            p[1] \in df.cols =>
                /\ p[2] \in df_cleaned.cols
                /\ \A k \in 1..NRows(df_cleaned) :
                      LET raw == RawRow(k)[p[1]]
                          n == df_cleaned.rows[k][p[2]]
                      IN  /\ ~n.na
                          /\ n.v \in Nat
                          /\ n.v = IF raw.na THEN 0 ELSE Runs(raw.v)
                          /\ (raw.na \/ raw.v = <<>>) => n.v = 0
                          /\ (~raw.na /\ raw.v = <<"a"," ","b"," "," ","c">>) => n.v = 3

\* a cleaned row whose title is "a b  c" and whose abstract was missing
C8_Witness ==
    /\ Cleaned
    /\ {"title", "abstract"} \subseteq df.cols
    /\ \E k \in 1..NRows(df_cleaned) :
          /\ RawRow(k)["title"] = Str(<<"a"," ","b"," "," ","c">>)
          /\ df_cleaned.rows[k]["title_word_count"] = Num(3)
          /\ RawRow(k)["abstract"].na
          /\ df_cleaned.rows[k]["abstract_word_count"] = Num(0)

\* C9: without a title column, cleaning raises nothing, the cleaned table has
\* as many rows as the raw table (same index labels), and no
\* title_word_count column is added.
C9_NoTitleColumn ==
    (Cleaned /\ "title" \notin df.cols) =>
        /\ err = NoError
        /\ NRows(df_cleaned) = NRows(df)
        /\ df_cleaned.index = df.index
        /\ "title_word_count" \notin df_cleaned.cols

\* a cleaned table of two or more rows that has an abstract but no title
C9_Witness ==
    /\ Cleaned
    /\ "title" \notin df.cols /\ "abstract" \in df.cols
    /\ NRows(df) >= 2 /\ NRows(df_cleaned) = NRows(df)

\* C6: top_words returns at most n (word, count) pairs; the words are tokens
\* of the lower-cased, space-joined titles that are alphabetic, longer than 3
\* and not stop words, each with its number of occurrences; ordered by count
\* descending, ties by first occurrence; no kept word left out has a higher
\* count than a returned one, and none is left out while there is room. The
\* two example titles with the default stop words give spread 2, patterns 1,
\* dynamics 1.
C6_TopWords ==
    (call.op = "top_words" /\ ret.returned) =>
        LET toks == Split(Lower(Join(call.titles)))
            out == ret.value
            kept == {toks[i] : i \in {j \in 1..Len(toks) :
                        /\ IsAlpha(toks[j])
                        /\ Len(toks[j]) > 3
                        /\ toks[j] \notin call.stop_words}}
            cnt(w) == Cardinality({i \in 1..Len(toks) : toks[i] = w})
            first(w) == CHOOSE i \in 1..Len(toks) :
                            toks[i] = w /\ \A j \in 1..(i - 1) : toks[j] # w
            returned == {out[k][1] : k \in 1..Len(out)}
        IN  /\ Len(out) <= call.n
            /\ \A k \in 1..Len(out) :
                  out[k][1] \in kept /\ out[k][2] = cnt(out[k][1])
            /\ \A k, l \in 1..Len(out) :
                  k < l =>
                     /\ out[k][1] # out[l][1]
                     /\ \/ out[k][2] > out[l][2]
                        \/ /\ out[k][2] = out[l][2]
                           /\ first(out[k][1]) < first(out[l][1])
            /\ \A w \in kept \ returned :
                  /\ Len(out) = call.n
                  /\ \A k \in 1..Len(out) : cnt(w) <= out[k][2]
            /\ (/\ call.titles = <<T_Example1, T_Example2>>
                /\ call.stop_words = StopWords
                /\ call.n >= 3) =>
                  out = <<<<<<"s","p","r","e","a","d">>, 2>>, <<<<"p","a","t","t","e","r","n","s">>, 1>>,
                          <<<<"d","y","n","a","m","i","c","s">>, 1>>>>

\* the example call has returned its three pairs
C6_Witness ==
    /\ call.op = "top_words" /\ ret.returned
    /\ call.titles = <<T_Example1, T_Example2>>
    /\ call.stop_words = StopWords
    /\ call.n = 3
    /\ Len(ret.value) = 3

RECURSIVE SumCounts(_)
SumCounts(pairs) ==
    IF pairs = <<>> THEN 0 ELSE pairs[1][2] + SumCounts(Tail(pairs))

\* C7: count_by on publication_year returns one pair per distinct
\* non-missing year, with the number of rows of that year, strictly ascending
\* by year; rows with a missing year are counted nowhere, so the counts sum
\* to the number of rows with a year; [2020, 2020, 2021] gives
\* {2020: 2, 2021: 1}.
C7_CountByYear ==
    (call.op = "count_by" /\ ret.returned) =>
        LET s == call.series
            out == ret.value
            present == {i \in 1..Len(s) : ~s[i].na}
            years == {s[i].v : i \in present}
        IN  /\ {out[k][1] : k \in 1..Len(out)} = years
            /\ Len(out) = Cardinality(years)
            /\ \A k \in 1..Len(out) :
                  out[k][2] = Cardinality({i \in present : s[i].v = out[k][1]})
            /\ \A k, l \in 1..Len(out) : k < l => out[k][1] < out[l][1]
            /\ SumCounts(out) = Cardinality(present)
            /\ s = <<Num(2020), Num(2020), Num(2021)>> =>
                  out = <<<<2020, 2>>, <<2021, 1>>>>

\* the example series, and a series with a missing year, have been counted
C7_Witness ==
    /\ call.op = "count_by" /\ ret.returned
    /\ call.series = <<Num(2020), Num(2020), Num(2021)>>
    /\ ret.value = <<<<2020, 2>>, <<2021, 1>>>>

\* C3: whatever optional columns the loaded table lacks, no step raises the
\* error of a missing column (KeyError).
C3_AbsentColumnsRaiseNothing ==
    (metadata.state = "ok" /\ "load" \in done
     /\ OptionalCols \ df.cols # {}) =>
        err.kind # "KeyError"

\* C4: when the year range (and journal selection) leaves no row of a
\* non-empty cleaned table, the run of the explorer raises nothing.
C4_EmptyViewRaisesNothing ==
    (variant = "dash" /\ pc = "idle" /\ "filters" \in done
     /\ "publication_year" \in df_cleaned.cols
     /\ NRows(df_cleaned) > 0 /\ NRows(df_filtered) = 0) =>
        err = NoError

\* C5: with a publish_time column, however many dates fail to parse, the
\* first run of the explorer gets through its year-range controls and year
\* metrics without raising.
C5_MissingYearsAbortNothing ==
    (variant = "dash" /\ pc = "idle"
     /\ "publication_year" \in df_cleaned.cols
     /\ year_range = DefaultYearRange(df_cleaned)) =>
        err.line \notin {72, 120}

\* C10: the CSV of an exported view, read again, has the view's number of
\* rows and its export columns.
C10_ExportRoundTrip ==
    csv.written =>
        LET r == ReadCsv(csv.lines)
            cols == DisplayCols(df_filtered)
        IN  /\ r.ok
            /\ r.nrows = NRows(df_filtered)
            /\ r.cols = {ColumnText[cols[k]] : k \in 1..Len(cols)}

\* no step after the load has left a trace: no table, no filter setting, no
\* aggregate, no export, no image file, no step recorded
NothingRan ==
    /\ df = NoTable /\ df_cleaned = NoTable /\ df_filtered = NoTable
    /\ year_range = <<>> /\ selected_journals = {}
    /\ papers_by_year = <<>> /\ top_journals = <<>> /\ top_words = <<>>
    /\ csv = NoCsv /\ files = {} /\ done = {}

\* C11: with metadata.csv absent the load step fails and no later step ever
\* runs. The batch script is at its start or has exited, the dashboard is at
\* its start or has stopped in its else branch with the error message shown
\* and no exception raised; in both nothing was cleaned, filtered, aggregated,
\* exported or written to an image file. Conversely every cleaning step is
\* taken from a state where the load succeeded and df is the table of the file.
C11_AbsentSourceStopsRun ==
    /\ [](metadata.state = "absent" =>
            /\ NothingRan
            /\ variant = "batch" => pc \in {"start", "exited"}
            /\ variant = "dash" => pc \in {"start", "stopped"} /\ err = NoError)
    /\ [][("clean" \in done' /\ "clean" \notin done) =>
            /\ metadata.state = "ok"
            /\ "load" \in done
            /\ df = metadata.table]_vars

\* the load has failed on an absent file and the run is over
C11_Witness ==
    /\ metadata.state = "absent"
    /\ \/ variant = "batch" /\ pc = "exited"
       \/ variant = "dash" /\ pc = "stopped"

\* the dashboard has run its filters: the run got past the year slider
Filtered == variant = "dash" /\ pc = "idle" /\ err.line # 72

\* row i of the cleaned table matches the current filter settings
InView(i) ==
    LET r == df_cleaned.rows[i]
    IN  /\ "publication_year" \in df_cleaned.cols =>
              /\ ~r["publication_year"].na
              /\ year_range[1] <= r["publication_year"].v
              /\ r["publication_year"].v <= year_range[2]
        /\ ("journal" \in df_cleaned.cols /\ selected_journals # {}) =>
              r["journal"] \in selected_journals

\* C12: after the first run and after any further runs with changed filters,
\* the filtered view has the columns of the cleaned table and exactly its
\* rows, in their order and under their index labels, whose year is not
\* missing and lies in the selected range [lo, hi] (when there is a year
\* column) and whose journal is in the selection (when there is a journal
\* column and the selection is not empty). It is determined by the cleaned
\* table and the current settings alone, and no run of the filters changes
\* the cleaned table.
C12_FilteredView ==
    /\ [](Filtered =>
            LET kept == {i \in 1..NRows(df_cleaned) : InView(i)}
                n == NRows(df_filtered)
            IN  /\ df_filtered.cols = df_cleaned.cols
                /\ n = Cardinality(kept)
                /\ {<<df_filtered.index[k], df_filtered.rows[k]>> : k \in 1..n}
                     = {<<df_cleaned.index[i], df_cleaned.rows[i]>> : i \in kept}
                /\ \A k \in 1..n, l \in 1..n :
                      k < l => df_filtered.index[k] < df_filtered.index[l])
    /\ [][(variant = "dash" /\ pc \in {"prepared", "idle"}) =>
            df_cleaned' = df_cleaned]_vars

\* a run after the slider was narrowed and a journal selected, showing some
\* but not all rows of the cleaned table
C12_Witness ==
    /\ Filtered /\ err = NoError
    /\ year_range # DefaultYearRange(df_cleaned)
    /\ selected_journals # {}
    /\ NRows(df_filtered) > 0
    /\ NRows(df_filtered) < NRows(df_cleaned)

====
